---------------------------- MODULE Spec2Model ----------------------------
(***************************************************************************)
(* A model of scripts/recover_from_uploads.py: the reconciliation of the   *)
(* albums/files catalog (an SQLite store) with the uploads directory.      *)
(*                                                                         *)
(* Text is modelled at two levels.  The functions that look inside a name  *)
(* (slugify, the shard test, the suffix of a file name) work on sequences  *)
(* of one-character strings; what the program stores and compares (keys,   *)
(* album paths, slugs, identifiers) is rendered to strings with Str, Key   *)
(* and PathStr, as the program holds them.                                 *)
(***************************************************************************)
EXTENDS Naturals, Sequences, FiniteSets, TLC

(***************************************************************************)
(* Python's None.  Identifiers, names and MIME types are strings, so None  *)
(* is a string no identifier can equal.  Truthy is Python's truth test of  *)
(* an Optional[str].                                                       *)
(***************************************************************************)
None == "<None>"

Truthy(v) == v # None /\ v # ""

\* ------------------------------------------------------------ characters

UPPER == <<"A","B","C","D","E","F","G","H","I","J","K","L","M",
           "N","O","P","Q","R","S","T","U","V","W","X","Y","Z">>

LOWER == <<"a","b","c","d","e","f","g","h","i","j","k","l","m",
           "n","o","p","q","r","s","t","u","v","w","x","y","z">>

DigitChars == {"0","1","2","3","4","5","6","7","8","9"}

Range(s) == {s[i] : i \in DOMAIN s}

\* str.lower() on one character
LowerChar(c) ==
  IF c \in Range(UPPER)
    THEN LOWER[CHOOSE i \in DOMAIN UPPER : UPPER[i] = c]
    ELSE c

\* str.lower()
LowerStr(cs) == [i \in DOMAIN cs |-> LowerChar(cs[i])]

\* the regular expression class \w (the model's alphabet holds no CJK character)
IsWordChar(c) == c \in Range(UPPER) \cup Range(LOWER) \cup DigitChars \cup {"_"}

\* the characters str.strip() removes
IsSpace(c) == c = " "

RECURSIVE LStrip(_, _)
\* str.lstrip(chars)
LStrip(cs, chars) ==
  IF cs # <<>> /\ Head(cs) \in chars THEN LStrip(Tail(cs), chars) ELSE cs

RECURSIVE RStrip(_, _)
\* str.rstrip(chars)
RStrip(cs, chars) ==
  IF cs # <<>> /\ cs[Len(cs)] \in chars
    THEN RStrip(SubSeq(cs, 1, Len(cs) - 1), chars)
    ELSE cs

\* str.strip(chars)
Strip(cs, chars) == RStrip(LStrip(cs, chars), chars)

RECURSIVE Str(_)
\* The string a sequence of characters spells.
Str(cs) == IF cs = <<>> THEN "" ELSE Head(cs) \o Str(Tail(cs))

RECURSIVE JoinSlash(_)
\* "/".join(segments)
JoinSlash(segs) ==
  IF segs = <<>> THEN ""
  ELSE IF Len(segs) = 1 THEN Str(segs[1])
  ELSE Str(Head(segs)) \o "/" \o JoinSlash(Tail(segs))

\* An album path as the program holds it: "/" + "/".join(segments).
PathStr(segs) == "/" \o JoinSlash(segs)

\* ---------------------------------------------------------------- slugify

RECURSIVE CollapseNonWord(_)
\* re.sub(r"[^\w<CJK>]+", "-", text): every maximal run of non-word
\* characters becomes one hyphen.
CollapseNonWord(cs) ==
  IF cs = <<>> THEN <<>>
  ELSE IF IsWordChar(Head(cs)) THEN <<Head(cs)>> \o CollapseNonWord(Tail(cs))
  ELSE IF Len(cs) > 1 /\ ~IsWordChar(cs[2]) THEN CollapseNonWord(Tail(cs))
  ELSE <<"-">> \o CollapseNonWord(Tail(cs))

ALBUM_FALLBACK == <<"a","l","b","u","m">>

\* slugify(text), as characters
slugify(text) ==
  LET lowered   == LowerStr(Strip(text, {" "}))
      collapsed == CollapseNonWord(lowered)
      stripped  == Strip(collapsed, {"-", "_"})
  IN  IF stripped = <<>> THEN ALBUM_FALLBACK ELSE stripped

\* ----------------------------------------------------- names on the disk

N_uploads  == <<"u","p","l","o","a","d","s">>
N_uploads2 == <<"u","p","l","o","a","d","s","2">>
N_other    == <<"o","t","h","e","r">>
N_dotdot   == <<".",".">>
N_vacation == <<"v","a","c","a","t","i","o","n">>
N_Vacation == <<"V","a","c","a","t","i","o","n">>
N_archive  == <<"a","r","c","h","i","v","e">>
N_config   == <<"c","o","n","f","i","g">>
N_thumbs   == <<".","t","h","u","m","b","s">>
N_2023     == <<"2","0","2","3">>
N_2024     == <<"2","0","2","4">>
N_2025     == <<"2","0","2","5">>
N_03       == <<"0","3">>
N_05       == <<"0","5">>
N_beach    == <<"b","e","a","c","h",".","j","p","g">>
N_sunset   == <<"S","u","n","s","e","t",".","P","N","G">>
N_notes    == <<"n","o","t","e","s",".","t","x","t">>
N_broken   == <<"b","r","o","k","e","n",".","j","p","g">>
N_logo     == <<"l","o","g","o",".","p","n","g">>
N_u1       == <<"u","1",".","j","p","g">>
N_a1b2     == <<"a","1","b","2",".","p","n","g">>
N_b        == <<"b",".","g","i","f">>
N_c        == <<"c",".","w","e","b","p">>
N_t        == <<"t",".","j","p","g">>
N_bg       == <<"b","g",".","p","n","g">>
N_x        == <<"x",".","j","p","g">>
N_scan     == <<"s","c","a","n",".","t","i","f","f">>

\* ------------------------------------------------------------ the source's sets

ALLOWED_EXTENSIONS ==
  { <<".","j","p","g">>, <<".","j","p","e","g">>, <<".","p","n","g">>,
    <<".","g","i","f">>, <<".","w","e","b","p">>, <<".","a","v","i","f">>,
    <<".","b","m","p">>, <<".","s","v","g">> }

IGNORED_DIR_NAMES ==
  { <<".","c","a","c","h","e">>, <<".","t","r","a","s","h">>,
    N_config, <<"l","o","g","s">> }

Modes == {"auto", "by-dir", "none"}

\* ------------------------------------------------------------- file names

\* The 1-based position of the last "." of a name, 0 when it has none.
LastDot(name) ==
  LET dots == {i \in DOMAIN name : name[i] = "."}
  IN  IF dots = {} THEN 0 ELSE CHOOSE i \in dots : \A j \in dots : j <= i

\* pathlib's Path.suffix: the last dot component, none for a leading or a
\* trailing dot.
Suffix(name) ==
  LET j == LastDot(name)
  IN  IF 1 < j /\ j < Len(name) THEN SubSeq(name, j, Len(name)) ELSE <<>>

\* mimetypes.guess_type(path)[0]: the standard library's table, by the
\* lower-cased extension; None for an extension it does not know (.webp and
\* .avif are unknown to the older tables).
GuessType(name) ==
  LET ext == Str(LowerStr(Suffix(name)))
  IN  CASE ext \in {".jpg", ".jpeg"} -> "image/jpeg"
        [] ext = ".png"  -> "image/png"
        [] ext = ".gif"  -> "image/gif"
        [] ext = ".bmp"  -> "image/bmp"
        [] ext = ".svg"  -> "image/svg+xml"
        [] ext = ".tiff" -> "image/tiff"
        [] ext = ".txt"  -> "text/plain"
        [] OTHER         -> None

\* str.startswith("image/") of a MIME type of the model
StartsWithImage(mime) ==
  mime \in {"image/jpeg", "image/png", "image/gif", "image/bmp", "image/svg+xml",
            "image/tiff", "image/webp", "image/avif"}

is_image_file(name) ==
  \/ LowerStr(Suffix(name)) \in ALLOWED_EXTENSIONS
  \/ (Truthy(GuessType(name)) /\ StartsWithImage(GuessType(name)))

guess_mime(name) ==
  LET mime_type == GuessType(name)
      suffix    == Str(LowerStr(Suffix(name)))
  IN  IF Truthy(mime_type) /\ StartsWithImage(mime_type) THEN mime_type
      ELSE CASE suffix \in {".jpg", ".jpeg"} -> "image/jpeg"
             [] suffix = ".png"  -> "image/png"
             [] suffix = ".gif"  -> "image/gif"
             [] suffix = ".webp" -> "image/webp"
             [] suffix = ".avif" -> "image/avif"
             [] suffix = ".bmp"  -> "image/bmp"
             [] suffix = ".svg"  -> "image/svg+xml"
             [] OTHER            -> "application/octet-stream"

\* -------------------------------------------------------- path classifier

AllDigits(cs) == \A i \in DOMAIN cs : cs[i] \in DigitChars

\* looks_like_sharded_upload(relative_key), on the key's segments
looks_like_sharded_upload(parts) ==
  IF Len(parts) < 3 THEN FALSE
  ELSE IF ~(Len(parts[1]) = 4 /\ AllDigits(parts[1])) THEN FALSE
  ELSE IF ~(Len(parts[2]) \in {1, 2} /\ AllDigits(parts[2])) THEN FALSE
  ELSE TRUE

\* decide_album_path's None: no album path (a decided path is never empty).
NoPath == <<>>

\* A bug: mode auto does not consult the shard test.
decide_album_path_AutoAsByDir(rel_key, mode) ==
  LET parent == SubSeq(rel_key, 1, Len(rel_key) - 1)
  IN  IF parent = <<>> THEN NoPath
      ELSE IF mode = "none" THEN NoPath
      ELSE parent

\* decide_album_path(rel_key, mode): the segments of the decided album path
decide_album_path(rel_key, mode) ==
  LET parent == SubSeq(rel_key, 1, Len(rel_key) - 1)
  IN  IF parent = <<>> THEN NoPath
      ELSE IF mode = "none" THEN NoPath
      ELSE IF mode = "by-dir" THEN parent
      ELSE IF looks_like_sharded_upload(rel_key) THEN NoPath
      ELSE parent

\* ------------------------------------------------------------- directories

UploadsDir == <<N_uploads>>

RECURSIVE Resolve(_)
\* Path.resolve(): ".." steps up
Resolve(segs) ==
  IF segs = <<>> THEN <<>>
  ELSE LET init == Resolve(SubSeq(segs, 1, Len(segs) - 1))
           last == segs[Len(segs)]
       IN  IF last = N_dotdot
             THEN (IF init = <<>> THEN <<>> ELSE SubSeq(init, 1, Len(init) - 1))
             ELSE Append(init, last)

IsPrefix(a, b) == Len(a) <= Len(b) /\ SubSeq(b, 1, Len(a)) = a

RECURSIVE AbsChars(_)
\* str(path) of an absolute path, as characters
AbsChars(segs) ==
  IF segs = <<>> THEN <<>> ELSE <<"/">> \o Head(segs) \o AbsChars(Tail(segs))

\* normalize_rel_key(path, base) is defined when path lies under base ...
UnderBase(path, base) == IsPrefix(base, path)

\* ... and is then the segments of path below base.
normalize_rel_key(path, base) == SubSeq(path, Len(base) + 1, Len(path))

\* The key as the program holds it.
Key(rel) == JoinSlash(rel)

IsHidden(name) == name # <<>> /\ name[1] = "."

\* iter_files keeps a file of the walk's base when no directory between the
\* base and the file is pruned and the file itself is not skipped.
Walked(path, base, include_hidden) ==
  /\ IsPrefix(base, path)
  /\ Len(path) > Len(base)
  /\ \A i \in (Len(base) + 1)..(Len(path) - 1) :
        /\ path[i] \notin IGNORED_DIR_NAMES
        /\ (include_hidden \/ ~IsHidden(path[i]))
  /\ (include_hidden \/ ~IsHidden(path[Len(path)]))

RECURSIVE iter_files(_, _, _)
\* iter_files(base, include_hidden) over the files of a tree, in walk order
iter_files(files, base, include_hidden) ==
  IF files = <<>> THEN <<>>
  ELSE IF Walked(Head(files).path, base, include_hidden)
    THEN <<Head(files)>> \o iter_files(Tail(files), base, include_hidden)
    ELSE iter_files(Tail(files), base, include_hidden)

\* ------------------------------------------------------------- the store

\* str(uuid.uuid4()): the n-th identifier drawn in run r; no two draws agree.
NewId(r, n) == "u" \o ToString(r) \o "-" \o ToString(n)

\* A row of table albums (password and cover_file_id are always NULL).
AlbumRow(id, name, slug, parent_id, is_public, path, ts) ==
  [id |-> id, name |-> name, slug |-> slug, parent_id |-> parent_id,
   is_public |-> is_public, path |-> path, created_at |-> ts, updated_at |-> ts]

\* A row of table files as INSERT INTO files writes it (width, height and
\* thumbhash are always NULL): json.dumps([]) for tags and aliases, NULL for
\* the other annotation columns.
NewFileRow(id, key, original_name, size, mime_type, album_id, ts) ==
  [id |-> id, key |-> key, original_name |-> original_name, size |-> size,
   mime_type |-> mime_type, tags |-> "[]", caption |-> None,
   semantic_description |-> None, aliases |-> "[]",
   annotation_updated_at |-> None, exif_data |-> None,
   album_id |-> album_id, created_at |-> ts, updated_at |-> ts]

\* dict.get(key) with None for a missing key
Get(d, k) == IF k \in DOMAIN d THEN d[k] ELSE None

\* d[k] = v on a dict
Put(d, k, v) == [x \in DOMAIN d \cup {k} |-> IF x = k THEN v ELSE d[x]]

\* ExistingFileRow of a files row, with load_existing_state's conversions
ExistingFileRow(row) ==
  [id |-> row.id,
   album_id |-> IF Truthy(row.album_id) THEN row.album_id ELSE None,
   original_name |-> IF Truthy(row.original_name) THEN row.original_name ELSE "",
   size |-> row.size,
   mime_type |-> IF Truthy(row.mime_type) THEN row.mime_type ELSE ""]

\* A bug: the albums of the store are not read into the path-to-id cache.
load_existing_state_NoAlbumPaths(conn) ==
  [album_cache |-> <<>>,
   slug_cache |-> {a.slug : a \in {b \in conn.albums : Truthy(b.slug)}},
   album_ids |-> {a.id : a \in {b \in conn.albums : Truthy(b.id)}},
   existing_keys |-> {f.key : f \in conn.files},
   existing_files |->
     [k \in {f.key : f \in conn.files} |->
        ExistingFileRow(CHOOSE f \in conn.files : f.key = k)]]

\* load_existing_state(conn): the caches of a run, read from the two tables.
\* (With two albums on one path the dict keeps one of them.)
load_existing_state(conn) ==
  [album_cache |->
     [p \in {a.path : a \in {b \in conn.albums : Truthy(b.path)}} |->
        (CHOOSE a \in conn.albums : a.path = p).id],
   slug_cache |-> {a.slug : a \in {b \in conn.albums : Truthy(b.slug)}},
   album_ids |-> {a.id : a \in {b \in conn.albums : Truthy(b.id)}},
   existing_keys |-> {f.key : f \in conn.files},
   existing_files |->
     [k \in {f.key : f \in conn.files} |->
        ExistingFileRow(CHOOSE f \in conn.files : f.key = k)]]

\* ---------------------------------------------------------- slug allocator

\* hashlib.sha1(album_path.encode("utf-8")).hexdigest()[:6]: six hex digits
\* that depend on the path alone.  Two paths may share them; in the model,
\* paths of equal length parity do.
Digest(album_path) == IF Len(album_path) % 2 = 0 THEN "0a1b2c" ELSE "3d4e5f"

\* SELECT 1 FROM albums WHERE slug = ? LIMIT 1
SlugExists(albums, candidate) == \E a \in albums : a.slug = candidate

RECURSIVE ProbeSlug(_, _, _, _, _)
\* The loop of ensure_unique_slug: the first candidate free in the table and
\* in the cache, the candidates after the first being base-2, base-3, ...
ProbeSlug(albums, base_slug, candidate, counter, slug_cache) ==
  IF ~SlugExists(albums, candidate) /\ candidate \notin slug_cache
    THEN candidate
    ELSE ProbeSlug(albums, base_slug, base_slug \o "-" \o ToString(counter + 1),
                   counter + 1, slug_cache)

\* A bug: the slug returned is not added to the cache.
RegisterSlug_Never(slug_cache, slug) == slug_cache

\* slug_cache.add(candidate)
RegisterSlug(slug_cache, slug) == slug_cache \cup {slug}

\* ensure_unique_slug(conn, base_slug, album_path, slug_cache): the slug
\* returned and the cache after the call.
ensure_unique_slug(albums, base_slug, album_path, slug_cache) ==
  LET first == IF base_slug \in slug_cache
                 THEN base_slug \o "-" \o Digest(album_path)
                 ELSE base_slug
      slug  == ProbeSlug(albums, base_slug, first, 1, slug_cache)
  IN  [slug |-> slug, slug_cache |-> RegisterSlug(slug_cache, slug)]

\* -------------------------------------------------------- hierarchy builder

\* A bug: the path-to-id cache is never advanced.
RegisterAlbum_Never(album_cache, current, album_id, a) == album_cache

\* A bug: the path-to-id cache is advanced by a live run only.
RegisterAlbum_LiveOnly(album_cache, current, album_id, a) ==
  IF a.dry_run THEN album_cache ELSE Put(album_cache, current, album_id)

\* ctx.album_cache[current] = album_id, in a preview as in a live run
RegisterAlbum(album_cache, current, album_id, a) ==
  Put(album_cache, current, album_id)

\* INSERT INTO albums raises on a taken primary key or a taken slug (the
\* unique index albums_slug_unique).
AlbumInsertRaises(albums, row) ==
  \E a \in albums : a.id = row.id \/ a.slug = row.slug

\* A bug: the album is inserted without its parent.
CreateAlbum_NoParent(S, segment, current, parent_id, a) ==
  LET album_id == NewId(a.run, S.uuids + 1)
      alloc    == ensure_unique_slug(S.albums, Str(slugify(segment)), current,
                                     S.ctx.slug_cache)
      row      == AlbumRow(album_id, Str(segment), alloc.slug, None,
                           a.public_albums, current, a.run)
      raises   == ~a.dry_run /\ AlbumInsertRaises(S.albums, row)
  IN  [ctx    |-> [album_cache    |-> RegisterAlbum(S.ctx.album_cache, current,
                                                    album_id, a),
                   slug_cache     |-> alloc.slug_cache,
                   album_ids      |-> S.ctx.album_ids \cup {album_id},
                   created_albums |-> S.ctx.created_albums + 1],
       albums |-> IF a.dry_run \/ raises THEN S.albums ELSE S.albums \cup {row},
       synth  |-> S.synth \cup {row},
       uuids  |-> S.uuids + 1,
       raised |-> S.raised \/ raises]

\* One pass of ensure_album_chain's loop for a partial path that is not in
\* the cache: a new album, written unless the run is a preview, registered
\* in the caches either way.  S is the state the builder works on: the
\* context, table albums of the open transaction, the albums synthesized in
\* the run, the identifiers drawn, whether a statement has raised.
CreateAlbum(S, segment, current, parent_id, a) ==
  LET album_id == NewId(a.run, S.uuids + 1)
      alloc    == ensure_unique_slug(S.albums, Str(slugify(segment)), current,
                                     S.ctx.slug_cache)
      row      == AlbumRow(album_id, Str(segment), alloc.slug, parent_id,
                           a.public_albums, current, a.run)
      raises   == ~a.dry_run /\ AlbumInsertRaises(S.albums, row)
  IN  [ctx    |-> [album_cache    |-> RegisterAlbum(S.ctx.album_cache, current,
                                                    album_id, a),
                   slug_cache     |-> alloc.slug_cache,
                   album_ids      |-> S.ctx.album_ids \cup {album_id},
                   created_albums |-> S.ctx.created_albums + 1],
       albums |-> IF a.dry_run \/ raises THEN S.albums ELSE S.albums \cup {row},
       synth  |-> S.synth \cup {row},
       uuids  |-> S.uuids + 1,
       raised |-> S.raised \/ raises]

RECURSIVE ChainLoop_NoLookup(_, _, _, _, _)
\* A bug: the loop does not look the partial path up in the cache.
ChainLoop_NoLookup(S, segs, i, parent_id, a) ==
  IF i > Len(segs) \/ S.raised THEN S
  ELSE ChainLoop_NoLookup(CreateAlbum(S, segs[i], PathStr(SubSeq(segs, 1, i)),
                                      parent_id, a),
                          segs, i + 1, NewId(a.run, S.uuids + 1), a)

RECURSIVE ChainLoop(_, _, _, _, _)
\* The loop of ensure_album_chain over the segments from the i-th on.
ChainLoop(S, segs, i, parent_id, a) ==
  IF i > Len(segs) \/ S.raised THEN S
  ELSE LET current  == PathStr(SubSeq(segs, 1, i))
           existing == Get(S.ctx.album_cache, current)
       IN  IF Truthy(existing)
             THEN ChainLoop(S, segs, i + 1, existing, a)
             ELSE ChainLoop(CreateAlbum(S, segs[i], current, parent_id, a),
                            segs, i + 1, NewId(a.run, S.uuids + 1), a)

\* ensure_album_chain(ctx, album_path): the state after the call and the
\* identifier returned.
ensure_album_chain(S, album_path, a) ==
  LET segs       == SelectSeq(album_path, LAMBDA p : p # <<>>)
      normalized == PathStr(segs)
  IN  IF album_path = NoPath THEN [state |-> S, id |-> None]
      ELSE IF normalized \in DOMAIN S.ctx.album_cache
        THEN [state |-> S, id |-> S.ctx.album_cache[normalized]]
      ELSE LET S2 == ChainLoop(S, segs, 1, None, a)
           IN  [state |-> S2, id |-> Get(S2.ctx.album_cache, normalized)]

\* ------------------------------------------------------------------ repair

\* A bug: the row is replaced by a freshly synthesized one (INSERT OR
\* REPLACE), which resets the annotation columns.
UpdatedRow_Replaced(row, album_id, original_name, size, mime_type, ts) ==
  [NewFileRow(row.id, row.key, original_name, size, mime_type, album_id, ts)
     EXCEPT !.created_at = row.created_at]

\* The row UPDATE files SET album_id, original_name, size, mime_type,
\* updated_at writes in place of row.
UpdatedRow(row, album_id, original_name, size, mime_type, ts) ==
  [row EXCEPT !.album_id = album_id, !.original_name = original_name,
              !.size = size, !.mime_type = mime_type, !.updated_at = ts]

\* A bug: the decided container is written even when none was decided.
RepairTarget_Decided(existing, target_album_id) == target_album_id

\* The container repair_existing_file aims at: the decided one, or the
\* existing one when none was decided.
RepairTarget(existing, target_album_id) ==
  IF target_album_id = None THEN existing.album_id ELSE target_album_id

\* A bug: the stored name is not compared with the file's name.
NeedsUpdate_NoName(existing, target, expected_size, expected_name, expected_mime, album_ids) ==
  LET existing_album_id_valid ==
        existing.album_id = None \/ existing.album_id \in album_ids
  IN  \/ existing.album_id # target
      \/ existing.size # expected_size
      \/ ~StartsWithImage(existing.mime_type)
      \/ (Truthy(existing.mime_type) /\ existing.mime_type # expected_mime)
      \/ (Truthy(existing.album_id) /\ ~existing_album_id_valid)

\* needs_update of repair_existing_file
NeedsUpdate(existing, target, expected_size, expected_name, expected_mime, album_ids) ==
  LET existing_album_id_valid ==
        existing.album_id = None \/ existing.album_id \in album_ids
  IN  \/ existing.album_id # target
      \/ existing.size # expected_size
      \/ existing.original_name # expected_name
      \/ ~StartsWithImage(existing.mime_type)
      \/ (Truthy(existing.mime_type) /\ existing.mime_type # expected_mime)
      \/ (Truthy(existing.album_id) /\ ~existing_album_id_valid)

\* repair_existing_file(ctx, existing, full_path, rel_key, target_album_id)
\* on table files: what it returns ("raised" for an exception) and the table
\* after it.  file is the entry on the disk.
repair_existing_file(files, album_ids, a, existing, file, target_album_id) ==
  LET target        == RepairTarget(existing, target_album_id)
      name          == file.path[Len(file.path)]
      expected_size == file.size
      expected_name == Str(name)
      expected_mime == guess_mime(name)
  IN  IF ~file.stat_ok THEN [result |-> "raised", files |-> files]
      ELSE IF ~NeedsUpdate(existing, target, expected_size, expected_name,
                           expected_mime, album_ids)
        THEN [result |-> "false", files |-> files]
      ELSE IF a.dry_run THEN [result |-> "true", files |-> files]
      ELSE [result |-> "true",
            files  |-> {IF r.id = existing.id
                          THEN UpdatedRow(r, target, expected_name, expected_size,
                                          expected_mime, a.run)
                          ELSE r : r \in files}]

\* ------------------------------------------------------------ the worlds

\* An entry of the disk: its absolute path, what stat reports as st_size,
\* and whether stat succeeds (it fails on a dangling symbolic link).
File(path, size, stat_ok) == [path |-> path, size |-> size, stat_ok |-> stat_ok]

TreeHoliday ==
  << File(<<N_uploads, N_logo>>, 10, TRUE),
     File(<<N_uploads, N_vacation, N_beach>>, 20, TRUE),
     File(<<N_uploads, N_vacation, N_sunset>>, 30, TRUE),
     File(<<N_uploads, N_vacation, N_notes>>, 5, TRUE),
     File(<<N_uploads, N_2024, N_03, N_u1>>, 12, TRUE) >>

TreeShards ==
  << File(<<N_uploads, N_2023, N_05, N_a1b2>>, 11, TRUE),
     File(<<N_uploads, N_2024, N_03, N_u1>>, 12, TRUE),
     File(<<N_uploads, N_2024, N_05, N_b>>, 13, TRUE),
     File(<<N_uploads, N_2025, N_05, N_c>>, 14, TRUE) >>

TreeMixed ==
  << File(<<N_uploads, N_scan>>, 7, TRUE),
     File(<<N_uploads, N_thumbs, N_t>>, 3, TRUE),
     File(<<N_uploads, N_Vacation, N_x>>, 8, TRUE),
     File(<<N_uploads, N_config, N_bg>>, 4, TRUE),
     File(<<N_uploads, N_vacation, N_beach>>, 20, TRUE),
     File(<<N_uploads, N_vacation, N_broken>>, 0, FALSE),
     File(<<N_uploads2, N_x>>, 9, TRUE) >>

Trees == {TreeHoliday, TreeShards, TreeMixed}

\* A files row of a catalog written before the run.
OldFileRow(id, key, original_name, size, mime_type, album_id, tags, caption) ==
  [NewFileRow(id, key, original_name, size, mime_type, album_id, 0)
     EXCEPT !.tags = tags, !.caption = caption]

StoreEmpty == [albums |-> {}, files |-> {}]

\* A half-recovered catalog: albums elsewhere with the slugs of directories
\* of the disk, items that point at an album that is gone ("gone"), stale
\* sizes and types.
StoreHalf ==
  [albums |->
     { AlbumRow("a1", "archive", "archive", None, FALSE, "/archive", 0),
       AlbumRow("a2", "vacation", "vacation", "a1", FALSE, "/archive/vacation", 0),
       AlbumRow("a3", "05", "05", "a1", FALSE, "/archive/05", 0) },
   files |->
     { OldFileRow("f1", "vacation/beach.jpg", "beach.jpg", 99, "image/jpeg",
                  "gone", "[\"sea\"]", "Beach"),
       OldFileRow("f2", "2024/03/u1.jpg", "u1.jpg", 12, "image/jpeg",
                  "gone", "[]", None),
       OldFileRow("f3", "logo.png", "logo.png", 10, "application/octet-stream",
                  "a1", "[\"brand\"]", "Logo"),
       OldFileRow("f4", "2023/05/a1b2.png", "a1b2.png", 11, "image/png",
                  None, "[]", None) }]

\* A catalog in step with part of the disk.
StoreCatalog ==
  [albums |->
     { AlbumRow("a1", "vacation", "vacation", None, TRUE, "/vacation", 0) },
   files |->
     { OldFileRow("f1", "vacation/beach.jpg", "beach.jpg", 20, "image/jpeg",
                  "a1", "[\"sea\"]", "Beach"),
       OldFileRow("f2", "vacation/Sunset.PNG", "old.png", 30, "image/png",
                  "a1", "[]", "Sunset"),
       OldFileRow("f3", "2024/03/u1.jpg", "u1.jpg", 12, "image/jpeg",
                  "a1", "[]", None) }]

Stores == {StoreEmpty, StoreHalf, StoreCatalog}

\* A catalog whose rows are in their album, with stale MIME types, and with
\* a row for a file whose stat fails.
StoreStale ==
  [albums |->
     { AlbumRow("a1", "vacation", "vacation", None, FALSE, "/vacation", 0) },
   files |->
     { OldFileRow("f1", "vacation/beach.jpg", "beach.jpg", 20, "image/pjpeg",
                  "a1", "[\"sea\"]", "Beach"),
       OldFileRow("f2", "vacation/broken.jpg", "broken.jpg", 0, "image/jpeg",
                  "a1", "[]", None),
       OldFileRow("f3", "vacation/Sunset.PNG", "Sunset.PNG", 30,
                  "application/octet-stream", "a1", "[]", None) }]

\* The options an invocation takes from its configuration rather than from
\* the run: --include-hidden, --subdir (its segments), --public-albums.
Cfg(include_hidden, subdir, public_albums) ==
  [include_hidden |-> include_hidden, subdir |-> subdir,
   public_albums |-> public_albums]

CfgPlain == Cfg(FALSE, <<>>, FALSE)

\* The worlds a behaviour starts in: a disk, a catalog, a configuration.
Worlds ==
  (Trees \X Stores \X {CfgPlain})
  \cup { <<TreeMixed, StoreHalf, Cfg(TRUE, <<>>, TRUE)>>,
         <<TreeHoliday, StoreCatalog, Cfg(FALSE, <<N_vacation>>, FALSE)>>,
         <<TreeHoliday, StoreStale, CfgPlain>>,
         <<TreeMixed, StoreStale, CfgPlain>>,
         <<TreeMixed, StoreEmpty, Cfg(TRUE, <<N_config>>, FALSE)>>,
         <<TreeMixed, StoreEmpty, Cfg(FALSE, <<N_dotdot, N_uploads2>>, FALSE)>>,
         <<TreeMixed, StoreEmpty, Cfg(FALSE, <<N_dotdot, N_other>>, FALSE)>> }

\* The number of invocations in one behaviour.
MaxRuns == 2

\* --------------------------------------------------------------- the state

VARIABLES
  tree,            \* the disk: its files, in the order os.walk meets them
  cfg,             \* the configuration the invocations share
  db,              \* the committed store: tables albums and files
  db0,             \* history: the committed store when the invocation began
  conn,            \* the tables as the open connection sees them
  pc,              \* "idle", "walk" (inside recover's loop) or "done"
  exit,            \* recover's return value, once pc = "done"
  run,             \* the invocations started; also the clock of now_iso()
  args,            \* the arguments of the current invocation
  ctx,             \* RecoveryContext: album_cache, slug_cache, album_ids, created_albums
  existing_keys,   \* recover's existing_keys
  existing_files,  \* recover's existing_files
  pending,         \* the files iter_files has yet to yield
  stats,           \* recover's counters
  uuids,           \* the identifiers uuid4 has drawn in this invocation
  synth,           \* history: the album rows synthesized in this invocation
  last,            \* history: what the latest pass of the loop did
  prev             \* history: the summary of the invocation before this one

vars == <<tree, cfg, db, db0, conn, pc, exit, run, args, ctx, existing_keys,
          existing_files, pending, stats, uuids, synth, last, prev>>

ZeroStats ==
  [scanned |-> 0, skipped_non_image |-> 0, skipped_existing |-> 0,
   repaired_existing |-> 0, inserted_files |-> 0, failed_files |-> 0]

EmptyCtx ==
  [album_cache |-> <<>>, slug_cache |-> {}, album_ids |-> {}, created_albums |-> 0]

Args(mode, dry_run, repair_existing, c, r) ==
  [album_mode |-> mode, dry_run |-> dry_run, repair_existing |-> repair_existing,
   include_hidden |-> c.include_hidden, subdir |-> c.subdir,
   public_albums |-> c.public_albums, run |-> r]

NoLast ==
  [op |-> "none", key |-> "", rel_key |-> <<>>, known |-> FALSE,
   album_path |-> NoPath, album_id |-> None, dangling |-> FALSE,
   before |-> {}, after |-> {}]

NoPrev ==
  [ran |-> FALSE, args |-> Args("auto", FALSE, FALSE, CfgPlain, 0),
   exit |-> 0, stats |-> ZeroStats, created_albums |-> 0]

Init ==
  /\ \E w \in Worlds : tree = w[1] /\ db = w[2] /\ cfg = w[3]
  /\ db0 = db
  /\ conn = db
  /\ pc = "idle"
  /\ exit = 0
  /\ run = 0
  /\ args = NoPrev.args
  /\ ctx = EmptyCtx
  /\ existing_keys = {}
  /\ existing_files = <<>>
  /\ pending = <<>>
  /\ stats = ZeroStats
  /\ uuids = 0
  /\ synth = {}
  /\ last = NoLast
  /\ prev = NoPrev

\* ------------------------------------------------------------- pre-flight

\* Path.exists() and Path.is_dir(): a directory is on the disk when a file
\* lies beneath it.
DirExists(files, dir) ==
  \E i \in DOMAIN files : IsPrefix(dir, files[i].path) /\ Len(files[i].path) > Len(dir)

\* scan_root of recover
ScanRoot(subdir) ==
  IF subdir # <<>> THEN Resolve(UploadsDir \o subdir) ELSE UploadsDir

\* The checks of recover before it opens the store: TRUE when it returns 2.
PreflightFails(files, subdir) ==
  \/ /\ subdir # <<>>
     /\ ~IsPrefix(AbsChars(UploadsDir), AbsChars(ScanRoot(subdir)))
  \/ ~DirExists(files, UploadsDir)
  \/ ~DirExists(files, ScanRoot(subdir))

\* ------------------------------------------------------ one pass of the loop

\* A bug: the key index is not consulted.
AlreadyCataloged_Never(key, keys) == FALSE

\* rel_key in existing_keys
AlreadyCataloged(key, keys) == key \in keys

\* INSERT INTO files raises on a taken primary key or a taken key (the unique
\* index files_key_unique).
FileInsertRaises(files, row) ==
  \E f \in files : f.id = row.id \/ f.key = row.key

\* A bug: the INSERT is not guarded by the preview flag.
InsertFile_InPreviewToo(files, a, file, key, album_id, n) ==
  LET name == file.path[Len(file.path)]
      row  == NewFileRow(NewId(a.run, n + 1), key, Str(name), file.size,
                         guess_mime(name), album_id, a.run)
  IN  IF ~file.stat_ok THEN [result |-> "raised", files |-> files, uuids |-> n]
      ELSE IF FileInsertRaises(files, row)
        THEN [result |-> "raised", files |-> files, uuids |-> n + 1]
      ELSE [result |-> "ok", files |-> files \cup {row}, uuids |-> n + 1]

\* The try block that inserts a file: "ok" or "raised", the table after it,
\* the identifiers drawn.
InsertFile(files, a, file, key, album_id, n) ==
  LET name == file.path[Len(file.path)]
      row  == NewFileRow(NewId(a.run, n + 1), key, Str(name), file.size,
                         guess_mime(name), album_id, a.run)
  IN  IF ~file.stat_ok THEN [result |-> "raised", files |-> files, uuids |-> n]
      ELSE IF a.dry_run THEN [result |-> "ok", files |-> files, uuids |-> n + 1]
      ELSE IF FileInsertRaises(files, row)
        THEN [result |-> "raised", files |-> files, uuids |-> n + 1]
      ELSE [result |-> "ok", files |-> files \cup {row}, uuids |-> n + 1]

\* existing_keys.add(rel_key) after an insertion
RegisterKey(keys, key) == keys \cup {key}

\* A bug: no transaction is open and every statement commits by itself.
InTransaction_Autocommit(committed, open) == open

\* conn.execute("BEGIN"): a statement of the open transaction leaves the
\* committed tables as they are (open: the tables as the connection sees
\* them after the statement).
InTransaction(committed, open) == committed

\* conn.commit(): the committed tables after it
Commit(committed, open) == open

\* conn.rollback(): the tables of the connection after it
Rollback(committed, open) == committed

\* What one pass of the loop leaves: whether an exception left the loop,
\* the counters, the context, the two tables of the connection,
\* existing_keys, the identifiers drawn, and the history of the pass.
Outcome(abort, st, c, albums, files, keys, n, sy, l) ==
  [abort |-> abort, stats |-> st, ctx |-> c, albums |-> albums, files |-> files,
   keys |-> keys, uuids |-> n, synth |-> sy, last |-> l]

FileName(file) == file.path[Len(file.path)]

RowsOf(files, key) == {f \in files : f.key = key}

\* The history of a pass over the file of key `key`.
Pass(op, rel_key, key, album_path, album_id, dangling, after) ==
  [op |-> op, key |-> key, rel_key |-> rel_key, known |-> key \in existing_keys,
   album_path |-> album_path, album_id |-> album_id, dangling |-> dangling,
   before |-> RowsOf(conn.files, key), after |-> after]

\* The state the hierarchy builder starts from in a pass.
BuilderState ==
  [ctx |-> ctx, albums |-> conn.albums, synth |-> synth, uuids |-> uuids,
   raised |-> FALSE]

\* An exception leaves the loop.
Aborted(rel_key, key) ==
  Outcome(TRUE, [stats EXCEPT !.scanned = @ + 1], ctx, conn.albums, conn.files,
          existing_keys, uuids, synth,
          Pass("abort", rel_key, key, NoPath, None, FALSE, RowsOf(conn.files, key)))

\* Lines 473-484 with repair mode: the key is cataloged, the row is repaired.
\* rep is what repair_existing_file returned.
HandleRepair(rel_key, key, album_path, chain, existing, rep) ==
  Outcome(FALSE,
          [stats EXCEPT !.scanned = @ + 1,
                        !.skipped_existing = @ + 1,
                        !.repaired_existing =
                           IF rep.result = "true" THEN @ + 1 ELSE @,
                        !.failed_files =
                           IF rep.result = "raised" THEN @ + 1 ELSE @],
          chain.state.ctx, chain.state.albums, rep.files, existing_keys,
          chain.state.uuids, chain.state.synth,
          Pass("repair_" \o rep.result, rel_key, key, album_path, chain.id,
               Truthy(existing.album_id)
                 /\ existing.album_id \notin chain.state.ctx.album_ids,
               RowsOf(rep.files, key)))

\* A bug: a cataloged key is repaired whether or not repair mode is on.
HandleExisting_AlwaysRepairs(file, rel_key, key, album_path, chain) ==
  IF key \in DOMAIN existing_files
    THEN HandleRepair(rel_key, key, album_path, chain, existing_files[key],
                      repair_existing_file(conn.files, chain.state.ctx.album_ids,
                                           args, existing_files[key], file, chain.id))
    ELSE Outcome(FALSE,
                 [stats EXCEPT !.scanned = @ + 1, !.skipped_existing = @ + 1],
                 chain.state.ctx, chain.state.albums, conn.files, existing_keys,
                 chain.state.uuids, chain.state.synth,
                 Pass("skipped", rel_key, key, album_path, chain.id, FALSE,
                      RowsOf(conn.files, key)))

\* Lines 473-484: the key is cataloged.
HandleExisting(file, rel_key, key, album_path, chain) ==
  IF args.repair_existing /\ key \in DOMAIN existing_files
    THEN HandleRepair(rel_key, key, album_path, chain, existing_files[key],
                      repair_existing_file(conn.files, chain.state.ctx.album_ids,
                                           args, existing_files[key], file, chain.id))
    ELSE Outcome(FALSE,
                 [stats EXCEPT !.scanned = @ + 1, !.skipped_existing = @ + 1],
                 chain.state.ctx, chain.state.albums, conn.files, existing_keys,
                 chain.state.uuids, chain.state.synth,
                 Pass("skipped", rel_key, key, album_path, chain.id, FALSE,
                      RowsOf(conn.files, key)))

\* A bug: a failed insertion is logged and not counted.
HandleNew_FailureUncounted(rel_key, key, album_path, chain, ins) ==
  IF ins.result = "ok"
    THEN Outcome(FALSE,
                 [stats EXCEPT !.scanned = @ + 1, !.inserted_files = @ + 1],
                 chain.state.ctx, chain.state.albums, ins.files,
                 RegisterKey(existing_keys, key), ins.uuids, chain.state.synth,
                 Pass("inserted", rel_key, key, album_path, chain.id, FALSE,
                      RowsOf(ins.files, key)))
    ELSE Outcome(FALSE,
                 [stats EXCEPT !.scanned = @ + 1],
                 chain.state.ctx, chain.state.albums, conn.files, existing_keys,
                 ins.uuids, chain.state.synth,
                 Pass("insert_failed", rel_key, key, album_path, chain.id, FALSE,
                      RowsOf(conn.files, key)))

\* Lines 486-518: the key is new.  ins is what the try block did.
HandleNew(rel_key, key, album_path, chain, ins) ==
  IF ins.result = "ok"
    THEN Outcome(FALSE,
                 [stats EXCEPT !.scanned = @ + 1, !.inserted_files = @ + 1],
                 chain.state.ctx, chain.state.albums, ins.files,
                 RegisterKey(existing_keys, key), ins.uuids, chain.state.synth,
                 Pass("inserted", rel_key, key, album_path, chain.id, FALSE,
                      RowsOf(ins.files, key)))
    ELSE Outcome(FALSE,
                 [stats EXCEPT !.scanned = @ + 1, !.failed_files = @ + 1],
                 chain.state.ctx, chain.state.albums, conn.files, existing_keys,
                 ins.uuids, chain.state.synth,
                 Pass("insert_failed", rel_key, key, album_path, chain.id, FALSE,
                      RowsOf(conn.files, key)))

\* Lines 470-518: an image, its album resolved (chain is what
\* ensure_album_chain returned).
HandleResolved(file, rel_key, key, album_path, chain) ==
  IF chain.state.raised THEN Aborted(rel_key, key)
  ELSE IF AlreadyCataloged(key, existing_keys)
    THEN HandleExisting(file, rel_key, key, album_path, chain)
    ELSE HandleNew(rel_key, key, album_path, chain,
                   InsertFile(conn.files, args, file, key, chain.id,
                              chain.state.uuids))

\* Lines 466-471: a file with its key.
HandleKeyed(file, rel_key, album_path) ==
  IF ~is_image_file(FileName(file))
    THEN Outcome(FALSE,
                 [stats EXCEPT !.scanned = @ + 1, !.skipped_non_image = @ + 1],
                 ctx, conn.albums, conn.files, existing_keys, uuids, synth,
                 Pass("non_image", rel_key, Key(rel_key), NoPath, None, FALSE,
                      RowsOf(conn.files, Key(rel_key))))
    ELSE HandleResolved(file, rel_key, Key(rel_key), album_path,
                        ensure_album_chain(BuilderState, album_path, args))

\* The body of recover's loop for one file: the state after it.  The key of
\* a file outside the uploads directory raises out of the loop
\* (Path.relative_to), and so does a statement of the hierarchy builder.
HandleFile(file) ==
  IF ~UnderBase(file.path, UploadsDir)
    THEN Aborted(<<>>, "")
    ELSE HandleKeyed(file, normalize_rel_key(file.path, UploadsDir),
                     decide_album_path(normalize_rel_key(file.path, UploadsDir),
                                       args.album_mode))

\* ---------------------------------------------------------------- actions

\* recover up to its loop: the pre-flight checks, then connect,
\* load_existing_state and BEGIN.  The invocation before it, if any, is
\* summarized in prev.
StartRun(mode, dry_run, repair_existing) ==
  /\ pc \in {"idle", "done"}
  /\ run < MaxRuns
  /\ run' = run + 1
  /\ args' = Args(mode, dry_run, repair_existing, cfg, run + 1)
  /\ prev' = IF pc = "done"
               THEN [ran |-> TRUE, args |-> args, exit |-> exit, stats |-> stats,
                     created_albums |-> ctx.created_albums]
               ELSE prev
  /\ stats' = ZeroStats
  /\ uuids' = 0
  /\ synth' = {}
  /\ last' = NoLast
  /\ conn' = db
  /\ db0' = db
  /\ IF PreflightFails(tree, cfg.subdir)
       THEN /\ pc' = "done"
            /\ exit' = 2
            /\ ctx' = EmptyCtx
            /\ existing_keys' = {}
            /\ existing_files' = <<>>
            /\ pending' = <<>>
       ELSE LET loaded == load_existing_state(db)
            IN  /\ pc' = "walk"
                /\ exit' = 0
                /\ ctx' = [album_cache |-> loaded.album_cache,
                           slug_cache |-> loaded.slug_cache,
                           album_ids |-> loaded.album_ids,
                           created_albums |-> 0]
                /\ existing_keys' = loaded.existing_keys
                /\ existing_files' = loaded.existing_files
                /\ pending' = iter_files(tree, ScanRoot(cfg.subdir), cfg.include_hidden)
  /\ UNCHANGED <<tree, cfg, db>>

\* One pass of the loop of recover.  An exception that leaves the loop ends
\* the invocation: rollback (of a live run) and return 1.
ProcessFile ==
  /\ pc = "walk"
  /\ pending # <<>>
  /\ \E o \in {HandleFile(Head(pending))} :
         /\ stats' = o.stats
         /\ last' = o.last
         /\ uuids' = o.uuids
         /\ IF o.abort
              THEN /\ conn' = Rollback(db, conn)
                   /\ pc' = "done"
                   /\ exit' = 1
                   /\ UNCHANGED <<db, ctx, existing_keys, synth, pending>>
              ELSE /\ conn' = [albums |-> o.albums, files |-> o.files]
                   /\ db' = InTransaction(db, [albums |-> o.albums, files |-> o.files])
                   /\ ctx' = o.ctx
                   /\ existing_keys' = o.keys
                   /\ synth' = o.synth
                   /\ pending' = Tail(pending)
                   /\ UNCHANGED <<pc, exit>>
  /\ UNCHANGED <<tree, cfg, db0, run, args, existing_files, prev>>

\* After the loop: a preview ends, a live run commits.
Finish ==
  /\ pc = "walk"
  /\ pending = <<>>
  /\ pc' = "done"
  /\ exit' = 0
  /\ db' = IF args.dry_run THEN db ELSE Commit(db, conn)
  /\ UNCHANGED <<tree, cfg, db0, conn, run, args, ctx, existing_keys, existing_files,
                 pending, stats, uuids, synth, last, prev>>

\* The next statement outside a per-file try block is one of the hierarchy
\* builder (the SELECT of ensure_unique_slug, the INSERT of a live run).
BuilderStatementNext ==
  /\ pending # <<>>
  /\ LET file    == Head(pending)
         rel_key == normalize_rel_key(file.path, UploadsDir)
         path    == decide_album_path(rel_key, args.album_mode)
     IN  /\ UnderBase(file.path, UploadsDir)
         /\ is_image_file(file.path[Len(file.path)])
         /\ path # NoPath
         /\ PathStr(path) \notin DOMAIN ctx.album_cache

\* The environment: the store stops answering.  A statement inside a
\* per-file try block that raises for it is caught and counted, and the
\* failure then meets the next statement outside one, conn.commit() at the
\* latest; that statement raises out of the loop, and recover rolls back (a
\* live run) and returns 1.
StoreFails ==
  /\ pc = "walk"
  /\ BuilderStatementNext \/ (pending = <<>> /\ ~args.dry_run)
  /\ conn' = Rollback(db, conn)
  /\ pc' = "done"
  /\ exit' = 1
  /\ UNCHANGED <<tree, cfg, db, db0, run, args, ctx, existing_keys, existing_files,
                 pending, stats, uuids, synth, last, prev>>

Next ==
  \/ \E mode \in Modes, dry_run \in BOOLEAN, repair_existing \in BOOLEAN :
        StartRun(mode, dry_run, repair_existing)
  \/ ProcessFile
  \/ Finish
  \/ StoreFails

Spec == Init /\ [][Next]_vars

\* ----------------------------------------------------------------- claims

\* The invocation has returned 0 after its summary.
Summarized == pc = "done" /\ exit = 0

\* The invocation before this one ran to its summary.
PrevSummarized == prev.ran /\ prev.exit = 0

\* No two rows of a set of album rows share the field the operator f reads.
UniqueBy(rows, f(_)) == \A x \in rows : \A y \in rows : f(x) = f(y) => x = y

PathOf(a) == a.path

SlugOf(a) == a.slug

KeyOf(f) == f.key

\* The store the invocation loaded its snapshot from is db0; db is that store
\* until the invocation commits.

\* C1 (idempotence): when a live run has committed and a second run with the
\* same album mode (and the same disk, store and configuration) reaches its
\* summary, the second run reports no inserted file and no created album.
C1_Idempotence ==
  (/\ Summarized
   /\ PrevSummarized
   /\ ~prev.args.dry_run
   /\ prev.args.album_mode = args.album_mode)
  => (stats.inserted_files = 0 /\ ctx.created_albums = 0)

\* C1's case: the first run inserted files and created albums, the second
\* found the files cataloged.
C1_Witness ==
  /\ Summarized
  /\ PrevSummarized
  /\ ~prev.args.dry_run
  /\ prev.args.album_mode = args.album_mode
  /\ prev.stats.inserted_files >= 2
  /\ prev.created_albums >= 2
  /\ stats.skipped_existing >= 2

\* C2 (album paths are unique): in the committed store, in the open
\* transaction and among the albums a run synthesizes (written or only
\* previewed) no two albums share a path, and no synthesized album has the
\* path of an album of the snapshot the run loaded.
C2_PathsUnique ==
  /\ UniqueBy(db.albums, PathOf)
  /\ UniqueBy(conn.albums, PathOf)
  /\ UniqueBy(synth, PathOf)
  /\ \A x \in synth : \A y \in db0.albums : x.path # y.path

\* C2's case: a second run in another mode has added albums to a store that
\* held those of the first, in a directory of several files.
C2_Witness ==
  /\ Summarized
  /\ PrevSummarized
  /\ ~args.dry_run
  /\ ~prev.args.dry_run
  /\ prev.created_albums >= 1
  /\ Cardinality(synth) >= 2
  /\ Cardinality(db.albums) >= 4
  /\ stats.scanned >= 4

\* C3 (slugs are unique): no two albums of the committed store, of the open
\* transaction or of those a run synthesizes (a preview's included) share a
\* slug; a synthesized album's slug is not one of the snapshot's albums; and
\* during the walk the known-slug set is exactly the snapshot's slugs and the
\* slugs allocated in the run, so each allocation returned a slug that was
\* in neither and registered it.
C3_SlugsUnique ==
  /\ UniqueBy(db.albums, SlugOf)
  /\ UniqueBy(conn.albums, SlugOf)
  /\ UniqueBy(synth, SlugOf)
  /\ \A x \in synth : \A y \in db0.albums : x.slug # y.slug
  /\ pc = "walk" =>
       ctx.slug_cache = {y.slug : y \in db0.albums} \cup {x.slug : x \in synth}

\* C3's case: a preview has allocated the slugs of three directories named
\* "05": the base slug, the base slug with the digest of the path, and, the
\* digest being taken, the base slug with the counter.
C3_Witness ==
  /\ args.dry_run
  /\ \E x \in synth : x.slug = "05"
  /\ \E x \in synth : x.slug = "05-0a1b2c"
  /\ \E x \in synth : x.slug = "05-2"

\* C4 (item keys are unique): no two rows of table files share a key, in the
\* committed store and in the open transaction; a pass that inserts (or tries
\* to) is never one whose key the index held; a key the index held was
\* counted as skipped, and an inserted key is in the index.
C4_KeysUnique ==
  /\ UniqueBy(db.files, KeyOf)
  /\ UniqueBy(conn.files, KeyOf)
  /\ last.op \in {"inserted", "insert_failed"} => ~last.known
  /\ last.op = "inserted" => last.key \in existing_keys
  /\ (last.known /\ last.op \notin {"non_image", "abort"}) =>
       (/\ last.op \in {"skipped", "repair_true", "repair_false", "repair_raised"}
        /\ stats.skipped_existing >= 1)

\* C4's case: a second live run over a store the first filled has skipped a
\* cataloged key.
C4_Witness ==
  /\ pc = "walk"
  /\ ~args.dry_run
  /\ PrevSummarized
  /\ ~prev.args.dry_run
  /\ prev.stats.inserted_files >= 2
  /\ last.known
  /\ last.op = "skipped"
  /\ Cardinality(conn.files) >= 4

\* C5 (preview fidelity): a preview and the live run that follows it on the
\* same disk, store, configuration, album mode and repair mode report the
\* same numbers of inserted files, repaired files and created albums.
C5_PreviewFidelity ==
  (/\ Summarized
   /\ ~args.dry_run
   /\ PrevSummarized
   /\ prev.args.dry_run
   /\ prev.args.album_mode = args.album_mode
   /\ prev.args.repair_existing = args.repair_existing)
  => (/\ stats.inserted_files = prev.stats.inserted_files
      /\ stats.repaired_existing = prev.stats.repaired_existing
      /\ ctx.created_albums = prev.created_albums)

\* C5's case: the preview counted the one new directory of several new files
\* once, and the live run did as predicted.
C5_Witness ==
  /\ Summarized
  /\ ~args.dry_run
  /\ PrevSummarized
  /\ prev.args.dry_run
  /\ prev.args.album_mode = args.album_mode
  /\ prev.args.repair_existing = args.repair_existing
  /\ tree = TreeHoliday
  /\ prev.created_albums = 1
  /\ prev.stats.inserted_files >= 3
  /\ Cardinality(synth) = 1

\* The latest pass ran repair_existing_file.
Repaired == last.op \in {"repair_true", "repair_false", "repair_raised"}

\* C6 (dangling-parent healing), as claimed: a live repair of an item whose
\* album id is not in the known-id set leaves the item with the decided
\* album, or with none if none was decided; the repaired item's album id is
\* then none or a known id.
C6_DanglingHealed ==
  (last.op = "repair_true" /\ ~args.dry_run /\ last.dangling)
  => \A r \in last.after :
        /\ r.album_id = last.album_id
        /\ (r.album_id = None \/ r.album_id \in ctx.album_ids)

\* C7 (no decision is no detach): when repair_existing_file runs with no
\* album decided, the row's album id after it is the album id before it,
\* dangling or not, whatever else the repair wrote.
C7_UnattachedKeeps ==
  (Repaired /\ last.album_id = None)
  => (/\ last.after # {}
      /\ \A b \in last.before : \A r \in last.after : r.album_id = b.album_id)

\* C7's case: a live repair with no album decided rewrote a row whose album
\* is gone, and the row still names that album.
C7_Witness ==
  /\ last.op = "repair_true"
  /\ ~args.dry_run
  /\ last.album_id = None
  /\ last.dangling
  /\ last.after # last.before
  /\ \E r \in last.after : r.album_id = "gone"

\* C8 (repair preserves the pass-through fields): a repair that updates a row
\* leaves its id, key, tags, caption, semantic description, aliases,
\* annotation timestamp, embedded-metadata blob (and creation timestamp) as
\* they were; album id, name, size, MIME type and update timestamp alone
\* may differ.
C8_PassThroughKept ==
  last.op = "repair_true"
  => (/\ Cardinality(last.before) = 1
      /\ Cardinality(last.after) = 1
      /\ \A b \in last.before : \A r \in last.after :
            /\ r.id = b.id
            /\ r.key = b.key
            /\ r.tags = b.tags
            /\ r.caption = b.caption
            /\ r.semantic_description = b.semantic_description
            /\ r.aliases = b.aliases
            /\ r.annotation_updated_at = b.annotation_updated_at
            /\ r.exif_data = b.exif_data
            /\ r.created_at = b.created_at)

\* C8's case: a live repair for a size mismatch wrote the size of the file
\* into a row that carries tags and a caption.
C8_Witness ==
  /\ last.op = "repair_true"
  /\ ~args.dry_run
  /\ \E b \in last.before : \E r \in last.after :
        /\ b.size # r.size
        /\ b.tags # "[]"
        /\ b.caption # None
        /\ r.tags = b.tags

\* The album path the attachment policy of C9 gives key k under a mode, none
\* as the empty path: the parent directory, but none at the storage root,
\* none under mode none, and none under mode auto for a key of three or more
\* segments that begins with four digits and then one or two digits.
C9_ClaimedPath(k, mode) ==
  LET parent == SubSeq(k, 1, Len(k) - 1)
      opaque == /\ Len(k) >= 3
                /\ Len(k[1]) = 4 /\ \A i \in 1..4 : k[1][i] \in DigitChars
                /\ Len(k[2]) \in {1, 2}
                /\ \A i \in 1..Len(k[2]) : k[2][i] \in DigitChars
  IN  CASE mode = "none"   -> <<>>
        [] mode = "by-dir" -> parent
        [] mode = "auto"   -> IF opaque THEN <<>> ELSE parent

\* The latest pass inserted the file of key `key` under mode `mode` and
\* attached it to an album of path `path`.
C9_InsertedInto(key, mode, path) ==
  (last.op = "inserted" /\ last.key = key /\ args.album_mode = mode)
  => \E a \in db0.albums \cup synth : a.path = path /\ a.id = last.album_id

\* C9 (attachment policy): a newly inserted file is attached to the album of
\* the path the policy gives its key (an album of the snapshot or one the run
\* synthesized, and in a live run that has not failed a row of the
\* connection's store), or to none when the policy gives none; so
\* 2024/03/u1.jpg under auto is unattached, vacation/beach.jpg under auto is
\* in /vacation and 2023/05/a1b2.png under by-dir is in /2023/05.
C9_AttachmentPolicy ==
  /\ last.op = "inserted" =>
       LET want == C9_ClaimedPath(last.rel_key, args.album_mode)
       IN  /\ \A r \in last.after : r.album_id = last.album_id
           /\ ~args.dry_run => Cardinality(last.after) = 1
           /\ IF want = <<>>
                THEN last.album_id = None
                ELSE /\ last.album_id # None
                     /\ \E a \in db0.albums \cup synth :
                           a.path = PathStr(want) /\ a.id = last.album_id
                     /\ (~args.dry_run /\ exit = 0) =>
                          \E a \in conn.albums :
                             a.path = PathStr(want) /\ a.id = last.album_id
  /\ (last.op = "inserted" /\ last.key = "2024/03/u1.jpg"
        /\ args.album_mode = "auto") => last.album_id = None
  /\ C9_InsertedInto("vacation/beach.jpg", "auto", "/vacation")
  /\ C9_InsertedInto("2023/05/a1b2.png", "by-dir", "/2023/05")

\* C9's case: a live run in mode by-dir has inserted 2023/05/a1b2.png into
\* the album /2023/05 it created.
C9_Witness ==
  /\ last.op = "inserted"
  /\ ~args.dry_run
  /\ args.album_mode = "by-dir"
  /\ last.key = "2023/05/a1b2.png"
  /\ \E a \in synth : \E r \in last.after :
        a.path = "/2023/05" /\ a.id = r.album_id /\ a \in conn.albums

\* C10 (all-or-nothing commit): the committed store is the store of the
\* run's start until the run ends; a run that returns 1 leaves it so, with
\* the connection's writes rolled back; the store differs from the start's
\* only after a live run returned 0, and it is then every write of the run.
C10_AllOrNothing ==
  /\ pc = "walk" => db = db0
  /\ (pc = "done" /\ exit = 1) => (db = db0 /\ conn = db0)
  /\ db # db0 => (pc = "done" /\ exit = 0 /\ ~args.dry_run /\ pending = <<>>)
  /\ (pc = "done" /\ exit = 0 /\ ~args.dry_run) => db = conn

\* C10's case: a live run that had created an album and inserted a file
\* failed, and the store is that of its start.
C10_Witness ==
  /\ pc = "done"
  /\ exit = 1
  /\ ~args.dry_run
  /\ ctx.created_albums >= 1
  /\ stats.inserted_files >= 1
  /\ db = db0
  /\ conn = db0

\* C11 (per-file failure isolation), as claimed: an exception in any step of
\* the handling of a file (its key, its album, its insertion, its repair) is
\* counted as failed and leaves the file as it was while the walk goes on;
\* so no run ends with status 1 while files are still to be handled, the
\* file whose handling raised among them.
C11_FailuresIsolated ==
  /\ (pc = "done" /\ exit = 1) => pending = <<>>
  /\ last.op \in {"abort", "insert_failed", "repair_raised"}
       => (/\ exit = 0
           /\ stats.failed_files >= 1
           /\ last.after = last.before)

\* C12 (pre-flight containment of --subdir), as claimed: an invocation whose
\* scan subdirectory resolves to a directory that is not the uploads
\* directory or beneath it ends with status 2 before the store is opened, a
\* sibling directory whose name begins with the uploads directory's name
\* included.
C12_SubdirContained ==
  (pc # "idle" /\ args.subdir # <<>>
     /\ ~IsPrefix(UploadsDir, ScanRoot(args.subdir)))
  => (pc = "done" /\ exit = 2)

\* C13 (a preview writes nothing): from the start of a preview invocation
\* to its end, the albums and files rows of the committed store and those
\* the connection sees are the rows of the invocation's start.
C13_PreviewWritesNothing ==
  (pc \in {"walk", "done"} /\ args.dry_run)
  => (/\ db.albums = db0.albums /\ db.files = db0.files
      /\ conn.albums = db0.albums /\ conn.files = db0.files)

\* C13's case: a preview has ended that counted an insertion, a repair and a
\* created album, and the store is as it was.
C13_Witness ==
  /\ pc = "done"
  /\ exit = 0
  /\ args.dry_run
  /\ stats.inserted_files >= 1
  /\ stats.repaired_existing >= 1
  /\ ctx.created_albums >= 1
  /\ synth # {}
  /\ db = db0

\* The files the loop of the current invocation has handled to the end.
Handled ==
  LET all == iter_files(tree, ScanRoot(args.subdir), args.include_hidden)
  IN  SubSeq(all, 1, Len(all) - Len(pending))

\* The album paths the handled files had ensure_album_chain called with, and
\* the partial paths of those: the path prefixes requested in the invocation.
RequestedPrefixes ==
  LET paths == { decide_album_path(normalize_rel_key(Handled[i].path, UploadsDir),
                                   args.album_mode) :
                   i \in { j \in DOMAIN Handled :
                             /\ UnderBase(Handled[j].path, UploadsDir)
                             /\ is_image_file(FileName(Handled[j])) } }
  IN  UNION { { PathStr(SubSeq(p, 1, n)) : n \in 1..Len(p) } : p \in paths }

\* C14 (memoization of the hierarchy builder): in an invocation, every path
\* prefix requested so far is in the path-to-id cache, and the albums created
\* are one per requested prefix that the snapshot lacked; a call of
\* ensure_album_chain for a path already in the cache creates nothing, adds
\* no row and returns the cached identifier, and no entry of the cache ever
\* changes, so a later call returns the identifier of the first.
C14_Memoized ==
  /\ [] ((pc = "walk" \/ (pc = "done" /\ exit # 2)) =>
           /\ RequestedPrefixes \subseteq DOMAIN ctx.album_cache
           /\ ctx.created_albums =
                Cardinality(RequestedPrefixes \ {x.path : x \in db0.albums})
           /\ Cardinality(synth) = ctx.created_albums
           /\ {x.path : x \in synth} =
                RequestedPrefixes \ {x.path : x \in db0.albums})
  /\ [][ (pc = "walk" /\ pending' # pending /\ last'.album_path # NoPath) =>
           /\ \A q \in DOMAIN ctx.album_cache :
                 /\ q \in DOMAIN ctx'.album_cache
                 /\ ctx'.album_cache[q] = ctx.album_cache[q]
           /\ last'.album_id = ctx'.album_cache[PathStr(last'.album_path)]
           /\ PathStr(last'.album_path) \in DOMAIN ctx.album_cache =>
                /\ ctx'.created_albums = ctx.created_albums
                /\ synth' = synth
                /\ conn'.albums = conn.albums
                /\ uuids' <= uuids + 1 ]_vars

\* C14's case: 2024/05/b.gif is inserted in mode by-dir after 2024/03/u1.jpg;
\* the album /2024 made for the first is the parent of the album /2024/05,
\* and five albums were created for the three files handled.
C14_Witness ==
  /\ pc = "walk"
  /\ last.op = "inserted"
  /\ last.key = "2024/05/b.gif"
  /\ args.album_mode = "by-dir"
  /\ db0.albums = {}
  /\ ctx.created_albums = 5
  /\ \E x \in synth : \E y \in synth :
        /\ x.path = "/2024" /\ y.path = "/2024/05"
        /\ y.parent_id = x.id /\ y.id = last.album_id

\* The place of a synthesized album among the identifiers the invocation
\* drew: uuid4 is called as the album is created, so this is creation order.
DrawnAt(x) == CHOOSE n \in 1..uuids : NewId(args.run, n) = x.id

\* C15 (parent linkage): an album synthesized for a path of one segment has
\* no parent; one synthesized for a longer path has as parent the album the
\* cache holds for the path without its last segment, an album of the
\* snapshot or one synthesized earlier in the invocation, whose identifier
\* is in the known-id set; the album's path is its parent's path, "/" and
\* its own name.  In a live run the rows are in the table.
C15_ParentLinked ==
  \A x \in synth :
     /\ x.parent_id = None <=> x.path = "/" \o x.name
     /\ x.parent_id # None =>
          \E y \in db0.albums \cup synth :
             /\ y.id = x.parent_id
             /\ x.path = y.path \o "/" \o x.name
             /\ y.path \in DOMAIN ctx.album_cache
             /\ ctx.album_cache[y.path] = x.parent_id
             /\ x.parent_id \in ctx.album_ids
             /\ y \in synth => DrawnAt(y) < DrawnAt(x)
             /\ (~args.dry_run /\ exit = 0) => y \in conn.albums
     /\ x.id \in ctx.album_ids
     /\ (~args.dry_run /\ exit = 0) => x \in conn.albums

\* C15's case: a live run has created /2024 and, beneath it, /2024/03.
C15_Witness ==
  /\ pc = "walk"
  /\ ~args.dry_run
  /\ \E x \in synth : \E y \in synth :
        /\ y.path = "/2024" /\ y.parent_id = None
        /\ x.path = "/2024/03" /\ x.parent_id = y.id
        /\ x \in conn.albums /\ y \in conn.albums

\* The entry of the disk the latest pass handled.
LastFile ==
  CHOOSE f \in Range(tree) :
     UnderBase(f.path, UploadsDir)
       /\ Key(normalize_rel_key(f.path, UploadsDir)) = last.key

\* The condition C16 gives for an update of row b to the decided album.
C16_Differs(b, file, decided, ids) ==
  \/ decided # b.album_id
  \/ file.size # b.size
  \/ Str(FileName(file)) # b.original_name
  \/ ~StartsWithImage(b.mime_type)
  \/ b.mime_type # guess_mime(FileName(file))
  \/ b.album_id \notin ids

\* C16 (repair decision): when repair_existing_file returns for a decided
\* album, it has returned true if and only if the decided album, the file's
\* size, its name or its classified MIME type differs from the stored one,
\* or the stored MIME type is no image type, or the stored album id is not a
\* known id; returning true in a live run it has written the decided album,
\* the file's name, size and MIME type and the time; returning false it
\* has written nothing.
C16_RepairDecision ==
  (last.op \in {"repair_true", "repair_false"} /\ last.album_id # None)
  => \A b \in last.before :
       /\ last.op = "repair_true"
            <=> C16_Differs(b, LastFile, last.album_id, ctx.album_ids)
       /\ last.op = "repair_false" => last.after = last.before
       /\ (last.op = "repair_true" /\ args.dry_run) => last.after = last.before
       /\ (last.op = "repair_true" /\ ~args.dry_run) =>
            \A r \in last.after :
               /\ r.album_id = last.album_id
               /\ r.size = LastFile.size
               /\ r.original_name = Str(FileName(LastFile))
               /\ r.mime_type = guess_mime(FileName(LastFile))
               /\ r.updated_at = args.run

\* C16's case: with repair mode on, vacation/beach.jpg was found up to date
\* (skipped, not repaired) and vacation/Sunset.PNG, whose stored name alone
\* differs, has just been updated in its album.
C16_Witness ==
  /\ last.op = "repair_true"
  /\ ~args.dry_run
  /\ last.key = "vacation/Sunset.PNG"
  /\ last.album_id # None
  /\ stats.skipped_existing = 2
  /\ stats.repaired_existing = 1
  /\ \E b \in last.before : \E r \in last.after :
        /\ b.album_id = last.album_id /\ b.size = r.size
        /\ b.mime_type = r.mime_type /\ b.original_name # r.original_name

\* A key (its segments, from the uploads directory) that lies beneath a
\* directory of a reserved name, or that is hidden or beneath a hidden
\* directory while hidden entries are not included.
C17_Excluded(rel_key, include_hidden) ==
  \/ \E i \in 1..(Len(rel_key) - 1) : rel_key[i] \in IGNORED_DIR_NAMES
  \/ ~include_hidden /\ \E i \in 1..Len(rel_key) : IsHidden(rel_key[i])

\* C17 (reserved and hidden entries are never reconciled), as claimed:
\* whatever the scan subdirectory, no file beneath a reserved directory on
\* the path from the uploads directory, and without --include-hidden no
\* hidden file or file beneath a hidden directory, is yielded by the walk or
\* handled by a pass of the loop.
C17_ReservedSkipped ==
  /\ last.op \notin {"none", "abort"}
       => ~C17_Excluded(last.rel_key, args.include_hidden)
  /\ \A i \in DOMAIN pending :
        UnderBase(pending[i].path, UploadsDir)
          => ~C17_Excluded(normalize_rel_key(pending[i].path, UploadsDir),
                           args.include_hidden)

\* C18 (repair converges), as claimed: a run with repair mode that reaches
\* its summary right after a live run with repair mode, in the same mode,
\* that reached its summary, reports no repaired item, whatever the catalog
\* held at first.
C18_RepairConverges ==
  (Summarized /\ PrevSummarized
     /\ ~prev.args.dry_run
     /\ prev.args.repair_existing /\ args.repair_existing
     /\ prev.args.album_mode = args.album_mode)
  => stats.repaired_existing = 0

\* The handled files of a kind: not media, or media whose key the snapshot
\* lacked and whose stat fails (the insertion of such a file raises).
HandledNonMedia ==
  { i \in DOMAIN Handled : ~is_image_file(FileName(Handled[i])) }

HandledInsertFailures ==
  { i \in DOMAIN Handled :
      /\ is_image_file(FileName(Handled[i]))
      /\ Key(normalize_rel_key(Handled[i].path, UploadsDir))
           \notin {f.key : f \in db0.files}
      /\ ~Handled[i].stat_ok }

\* C19 (accounting of the run statistics): between two passes of the loop
\* and at the summary, every file scanned is counted once, as skipped
\* non-media, as skipped existing, as inserted or as a failed insertion; the
\* repaired files and the failed repairs together are at most the skipped
\* existing ones; without repair mode nothing is repaired and the failed
\* operations are the failed insertions.
C19_Accounting ==
  (pc = "walk" \/ Summarized)
  => LET ins_failed == Cardinality(HandledInsertFailures)
         rep_failed == stats.failed_files - ins_failed
     IN  /\ stats.scanned = Len(Handled)
         /\ stats.skipped_non_image = Cardinality(HandledNonMedia)
         /\ stats.failed_files >= ins_failed
         /\ stats.scanned = stats.skipped_non_image + stats.skipped_existing
                              + stats.inserted_files + ins_failed
         /\ stats.repaired_existing + rep_failed <= stats.skipped_existing
         /\ ~args.repair_existing =>
              /\ stats.repaired_existing = 0
              /\ stats.scanned = stats.inserted_files + stats.skipped_non_image
                                   + stats.skipped_existing + stats.failed_files

\* C19's case: a run with repair mode has reached its summary with files
\* inserted, files skipped as existing, one of them repaired and one whose
\* repair failed.
C19_Witness ==
  /\ Summarized
  /\ args.repair_existing
  /\ stats.inserted_files >= 1
  /\ stats.skipped_existing >= 2
  /\ stats.repaired_existing >= 1
  /\ stats.failed_files >= 1
  /\ HandledInsertFailures = {}

\* C20 (without repair mode the cataloged rows are untouched): throughout an
\* invocation without repair mode, every files row of the invocation's start
\* is, field for field, a row of the table the connection sees and of the
\* committed table, however the file on the disk differs from it; what the
\* run adds are rows of new identifiers.
C20_ExistingUntouched ==
  (pc \in {"walk", "done"} /\ ~args.repair_existing)
  => (/\ db0.files \subseteq conn.files
      /\ db0.files \subseteq db.files
      /\ db0.albums \subseteq conn.albums
      /\ db0.albums \subseteq db.albums
      /\ \A r \in conn.files \ db0.files :
            \A f \in db0.files : r.id # f.id /\ r.key # f.key)

\* C20's case: a live run without repair mode has committed an insertion,
\* and the row of vacation/beach.jpg still holds a size the file does not
\* have and an album that is gone.
C20_Witness ==
  /\ Summarized
  /\ ~args.dry_run
  /\ ~args.repair_existing
  /\ stats.inserted_files >= 1
  /\ stats.skipped_existing >= 1
  /\ db # db0
  /\ \E f \in db.files : \E i \in DOMAIN tree :
        /\ f.key = "vacation/beach.jpg"
        /\ f.album_id = "gone"
        /\ Key(normalize_rel_key(tree[i].path, UploadsDir)) = f.key
        /\ tree[i].size # f.size

=============================================================================
